---------------------------- MODULE Spec2Model ----------------------------
(***************************************************************************)
(* Model of the coffee -> Pokemon assignment engine of coffee-dex:         *)
(* the weighted type scorer (service/pokemon_mapper.go), the mapping       *)
(* pipeline PokemonService.MapCoffeeToPokemon (service/pokemon.go), the    *)
(* refiner client (service/llm.go) and the coffee_pokemon table            *)
(* (storage/pokemon_storage.go, sql/setup_pokemon_database.sql).           *)
(*                                                                         *)
(* Numbers.  The Go code computes in float64.  Here every quantity is an   *)
(* exact rational: weights, bonuses are written in tenths, thresholds in   *)
(* hundredths, and a score is a record [num, den] with den > 0 meaning     *)
(* num/den.  Comparisons are exact.                                        *)
(***************************************************************************)
EXTENDS Integers, Sequences, FiniteSets, TLC

VARIABLES
    coffee_pokemon,  \* rows of table coffee_pokemon (the persisted mappings)
    pc,              \* per request: position inside GeneratePokemon / MapCoffeeToPokemon
    req,             \* per request: the locals of MapCoffeeToPokemon
    outcome,         \* per request: what the handler answered
    llmEnabled,      \* s.llmService != nil
    faultsLeft,      \* number of storage calls that may still fail
    scCoffee,        \* scorer harness: the coffee handed to the mapper
    scResult,        \* scorer harness: result of CalculatePokemonTypes
    coffees,         \* CoffeeStorage as the coffee handlers fill it: id -> coffee
    lastResp,        \* what the last coffee or nickname handler answered
    pokemons,        \* rows of table pokemons, in id order
    tcCall,          \* the last call of getTypedCandidates and what it returned
    scMapping,       \* scorer harness: result of buildTraitMapping
    brewers,         \* rows of table brewers
    brewerReq        \* per CreateBrewer request: position in the handler and body

vars ==
    <<coffee_pokemon, pc, req, outcome, llmEnabled, faultsLeft, scCoffee, scResult,
      coffees, lastResp, pokemons, tcCall, scMapping, brewers, brewerReq>>

pipeVars == <<coffee_pokemon, pc, req, outcome, llmEnabled, faultsLeft>>
scVars == <<scCoffee, scResult, scMapping>>
crudVars == <<coffees, lastResp>>
candVars == <<pokemons, tcCall>>
brewVars == <<brewers, brewerReq>>

-----------------------------------------------------------------------------
(* Bounds *)

NumRequests == 2
MaxFaults == 1
MaxVaried == 2
MaxCoffees == 2
MaxPokemons == 11
NumBrewerRequests == 5

-----------------------------------------------------------------------------
(* Small helpers *)

\* the CreateBrewer requests, and a request that is not in the handler
BrewerRequests == 1..NumBrewerRequests
NoBrewerRequest == [pc |-> "idle", Name |-> "", PokeballType |-> ""]

Min2(a, b) == IF a < b THEN a ELSE b

Range(s) == {s[i] : i \in DOMAIN s}

RECURSIVE SumSeq(_)
SumSeq(s) == IF s = <<>> THEN 0 ELSE Head(s) + SumSeq(Tail(s))

\* a/b < c/d for b > 0, d > 0, by comparing integer parts and then the
\* reciprocals of the fractional parts (no large products).
RECURSIVE RatLess(_, _, _, _)
RatLess(a, b, c, d) ==
    LET q1 == a \div b
        r1 == a % b
        q2 == c \div d
        r2 == c % d
    IN  IF q1 # q2 THEN q1 < q2
        ELSE IF r2 = 0 THEN FALSE
        ELSE IF r1 = 0 THEN TRUE
        ELSE RatLess(d, r2, b, r1)

ScoreLess(x, y) == RatLess(x.num, x.den, y.num, y.den)
ScoreEq(x, y) == ~ScoreLess(x, y) /\ ~ScoreLess(y, x)
ScoreLeq(x, y) == ~ScoreLess(y, x)

Zero == [num |-> 0, den |-> 1]
One == [num |-> 1, den |-> 1]

-----------------------------------------------------------------------------
(* models.TastingTraits / models.Coffee *)

TraitNames ==
    {"berry_intensity", "stonefruit_intensity", "roast_intensity",
     "citrus_fruits_intensity", "bitterness", "florality", "spice",
     "sweetness", "aromatic_intensity", "savory", "body", "cleanliness"}

RoastLevels == {"light", "medium", "dark", "light medium", "medium dark", "unclear"}

ProcessingMethods == {"washed", "natural", "honey", "coferment", "experimental"}

NoTraits == [t \in TraitNames |-> 0]

NoNotes == <<"", "", "", "", "">>

\* strings.Contains(strings.ToLower(note), keyword) for the notes used in the
\* model: the keywords of the rule table that occur in the lower-cased note.
NoteKeywords(note) ==
    CASE note = "Dark Chocolate" -> {"dark", "chocolate"}
      [] note = "caramel"        -> {"caramel"}
      [] note = "Jasmine Tea"    -> {"jasmine", "tea"}
      [] note = "Burnt Toast"    -> {"burnt", "toast"}
      [] note = "blueberry"      -> {}
      [] OTHER                   -> {}

-----------------------------------------------------------------------------
(* The rule table: PokemonMapper.initializeTypeRules.                      *)
(* Weight and the bonuses are in tenths, MinimumThreshold in hundredths.   *)

TW(t, w, lo, hi) == [Trait |-> t, Weight |-> w, Min |-> lo, Max |-> hi]

NoBonus == [k \in {} |-> 10]

TypeNames ==
    {"normal", "fire", "water", "grass", "electric", "ice", "poison",
     "ground", "rock", "dark", "fairy", "psychic", "bug"}

typeRules ==
    [normal |->
        [Type |-> "normal",
         PrimaryTraits |-> <<TW("cleanliness", 20, 6, 9), TW("body", 15, 4, 7)>>,
         SecondaryTraits |-> <<TW("sweetness", 10, 4, 6), TW("bitterness", 10, 3, 6)>>,
         KeywordMatches |-> {},
         ProcessingBonus |-> [k \in {"washed"} |-> 13],
         RoastLevelBonus |-> [k \in {"medium", "light medium"} |->
                                 IF k = "medium" THEN 14 ELSE 12],
         MinimumThreshold |-> 40],
     fire |->
        [Type |-> "fire",
         PrimaryTraits |-> <<TW("roast_intensity", 25, 7, 10), TW("savory", 20, 6, 10),
                             TW("spice", 22, 7, 10)>>,
         SecondaryTraits |-> <<TW("bitterness", 12, 6, 9), TW("body", 10, 7, 10)>>,
         KeywordMatches |-> {"pepper", "roast", "smoke", "char", "burnt", "toast", "caramel"},
         ProcessingBonus |-> NoBonus,
         RoastLevelBonus |-> [k \in {"dark", "medium dark"} |->
                                 IF k = "dark" THEN 18 ELSE 15],
         MinimumThreshold |-> 60],
     water |->
        [Type |-> "water",
         PrimaryTraits |-> <<TW("cleanliness", 20, 8, 10), TW("body", 15, 2, 5)>>,
         SecondaryTraits |-> <<TW("sweetness", 10, 3, 6)>>,
         KeywordMatches |-> {"water", "clean", "crisp", "mineral", "seaweed", "ocean"},
         ProcessingBonus |-> [k \in {"washed"} |-> 15],
         RoastLevelBonus |-> NoBonus,
         MinimumThreshold |-> 50],
     grass |->
        [Type |-> "grass",
         PrimaryTraits |-> <<TW("florality", 25, 7, 10), TW("aromatic_intensity", 20, 6, 10)>>,
         SecondaryTraits |-> <<TW("cleanliness", 13, 6, 9), TW("sweetness", 10, 5, 8)>>,
         KeywordMatches |-> {"floral", "jasmine", "rose", "grass", "vegetal", "green",
                             "herbal", "tea"},
         ProcessingBonus |-> [k \in {"washed", "honey"} |->
                                 IF k = "washed" THEN 13 ELSE 12],
         RoastLevelBonus |-> [k \in {"light", "light medium"} |->
                                 IF k = "light" THEN 15 ELSE 13],
         MinimumThreshold |-> 55],
     electric |->
        [Type |-> "electric",
         PrimaryTraits |-> <<TW("citrus_fruits_intensity", 25, 7, 10),
                             TW("aromatic_intensity", 20, 7, 10)>>,
         SecondaryTraits |-> <<TW("cleanliness", 15, 7, 10), TW("body", -10, 2, 5)>>,
         KeywordMatches |-> {"citrus", "lemon", "lime", "orange", "grapefruit", "bright",
                             "zesty", "tangy", "acidic"},
         ProcessingBonus |-> [k \in {"washed"} |-> 14],
         RoastLevelBonus |-> [k \in {"light", "light medium"} |->
                                 IF k = "light" THEN 16 ELSE 13],
         MinimumThreshold |-> 60],
     ice |->
        [Type |-> "ice",
         PrimaryTraits |-> <<TW("cleanliness", 25, 8, 10), TW("aromatic_intensity", 20, 7, 10)>>,
         SecondaryTraits |-> <<TW("florality", 15, 6, 9)>>,
         KeywordMatches |-> {"mint", "menthol", "eucalyptus", "cooling", "fresh", "crisp"},
         ProcessingBonus |-> [k \in {"washed"} |-> 14],
         RoastLevelBonus |-> NoBonus,
         MinimumThreshold |-> 65],
     poison |->
        [Type |-> "poison",
         PrimaryTraits |-> <<TW("spice", 25, 7, 10), TW("savory", 20, 7, 10)>>,
         SecondaryTraits |-> <<TW("aromatic_intensity", 15, 7, 10), TW("bitterness", 10, 5, 8)>>,
         KeywordMatches |-> {"spice", "funky", "ferment", "wild", "unusual", "complex",
                             "intense"},
         ProcessingBonus |-> [k \in {"natural", "experimental", "coferment"} |->
                                 IF k = "natural" THEN 15
                                 ELSE IF k = "experimental" THEN 18 ELSE 17],
         RoastLevelBonus |-> NoBonus,
         MinimumThreshold |-> 60],
     ground |->
        [Type |-> "ground",
         PrimaryTraits |-> <<TW("body", 25, 7, 10), TW("savory", 20, 6, 10)>>,
         SecondaryTraits |-> <<TW("roast_intensity", 15, 5, 8), TW("bitterness", 10, 4, 7)>>,
         KeywordMatches |-> {"earth", "soil", "grain", "wheat", "cereal", "nutty", "almond",
                             "hazelnut"},
         ProcessingBonus |-> [k \in {"natural", "honey"} |->
                                 IF k = "natural" THEN 13 ELSE 12],
         RoastLevelBonus |-> NoBonus,
         MinimumThreshold |-> 55],
     rock |->
        [Type |-> "rock",
         PrimaryTraits |-> <<TW("stonefruit_intensity", 30, 7, 10), TW("sweetness", 20, 6, 9)>>,
         SecondaryTraits |-> <<TW("body", 15, 6, 9), TW("aromatic_intensity", 10, 5, 8)>>,
         KeywordMatches |-> {"peach", "apricot", "plum", "cherry", "nectarine", "stonefruit"},
         ProcessingBonus |-> [k \in {"natural", "honey"} |->
                                 IF k = "natural" THEN 14 ELSE 13],
         RoastLevelBonus |-> NoBonus,
         MinimumThreshold |-> 60],
     dark |->
        [Type |-> "dark",
         PrimaryTraits |-> <<TW("roast_intensity", 25, 7, 10), TW("bitterness", 20, 6, 9)>>,
         SecondaryTraits |-> <<TW("body", 15, 7, 10), TW("sweetness", -10, 2, 5)>>,
         KeywordMatches |-> {"dark", "chocolate", "cocoa", "roast", "bold", "intense"},
         ProcessingBonus |-> NoBonus,
         RoastLevelBonus |-> [k \in {"dark", "medium dark"} |->
                                 IF k = "dark" THEN 20 ELSE 16],
         MinimumThreshold |-> 60],
     fairy |->
        [Type |-> "fairy",
         PrimaryTraits |-> <<TW("sweetness", 30, 8, 10), TW("aromatic_intensity", 20, 7, 10)>>,
         SecondaryTraits |-> <<TW("florality", 15, 6, 9), TW("berry_intensity", 15, 6, 9)>>,
         KeywordMatches |-> {"sweet", "candy", "sugar", "honey", "vanilla", "caramel",
                             "syrup", "dessert"},
         ProcessingBonus |-> [k \in {"natural", "honey"} |->
                                 IF k = "natural" THEN 14 ELSE 15],
         RoastLevelBonus |-> NoBonus,
         MinimumThreshold |-> 65],
     psychic |->
        [Type |-> "psychic",
         PrimaryTraits |-> <<TW("aromatic_intensity", 25, 8, 10), TW("cleanliness", 20, 7, 10)>>,
         SecondaryTraits |-> <<TW("florality", 15, 6, 9), TW("berry_intensity", 10, 6, 9)>>,
         KeywordMatches |-> {},
         ProcessingBonus |-> [k \in {"experimental", "coferment"} |->
                                 IF k = "experimental" THEN 18 ELSE 16],
         RoastLevelBonus |-> NoBonus,
         MinimumThreshold |-> 70],
     bug |->
        [Type |-> "bug",
         PrimaryTraits |-> <<TW("spice", 20, 5, 9), TW("aromatic_intensity", 15, 5, 9)>>,
         SecondaryTraits |-> <<TW("body", 10, 4, 7)>>,
         KeywordMatches |-> {"spice", "cinnamon", "cardamom", "clove", "insect", "bug"},
         ProcessingBonus |-> [k \in {"natural", "experimental"} |->
                                 IF k = "natural" THEN 12 ELSE 13],
         RoastLevelBonus |-> NoBonus,
         MinimumThreshold |-> 45]]

-----------------------------------------------------------------------------
(* PokemonMapper.calculateTypeScore and its helpers *)

\* getTraitValue: the named field of TastingTraits, 0 for an unknown name
getTraitValue(traits, traitName) ==
    IF traitName \in DOMAIN traits THEN traits[traitName] ELSE 0

\* variant: a note counts once for every keyword it contains
keywordMatchesPerKeyword(tastingNotes, keywords) ==
    SumSeq([i \in DOMAIN tastingNotes |->
               IF tastingNotes[i] = "" THEN 0
               ELSE Cardinality(NoteKeywords(tastingNotes[i]) \cap keywords)])

\* calculateKeywordScore, times 5: the number of non-empty notes that contain
\* at least one keyword (each note counted once)
keywordMatches(tastingNotes, keywords) ==
    Cardinality({i \in DOMAIN tastingNotes :
                    /\ tastingNotes[i] # ""
                    /\ NoteKeywords(tastingNotes[i]) \cap keywords # {}})

\* variant: the value is not clamped to Max
traitContributionUnclamped(traits, tw) ==
    LET traitValue == getTraitValue(traits, tw.Trait)
    IN  IF traitValue >= tw.Min THEN traitValue * tw.Weight ELSE 0

\* one pass of the trait loop body: the contribution added to score, in tenths
traitContribution(traits, tw) ==
    LET traitValue == getTraitValue(traits, tw.Trait)
    IN  IF traitValue >= tw.Min
        THEN Min2(traitValue, tw.Max) * tw.Weight
        ELSE 0

\* score before the bonuses, in tenths
rawScore(coffee, rule) ==
    SumSeq([i \in DOMAIN rule.PrimaryTraits |->
               traitContribution(coffee.TastingTraits, rule.PrimaryTraits[i])])
    + SumSeq([i \in DOMAIN rule.SecondaryTraits |->
               traitContribution(coffee.TastingTraits, rule.SecondaryTraits[i])])
    + (IF rule.KeywordMatches # {}
       THEN keywordMatches(coffee.TastingNotes, rule.KeywordMatches) * 40
       ELSE 0)

\* maxPossibleScore, in tenths
maxPossibleScore(rule) ==
    SumSeq([i \in DOMAIN rule.PrimaryTraits |-> rule.PrimaryTraits[i].Weight * 10])
    + SumSeq([i \in DOMAIN rule.SecondaryTraits |-> rule.SecondaryTraits[i].Weight * 10])
    + (IF rule.KeywordMatches # {} THEN 200 ELSE 0)

\* variant: the bonus maps are never consulted
bonusForNone(bonusMap, key) == 10

\* the bonus for a key, in tenths; 10 (i.e. 1.0) when the map has no such key
bonusFor(bonusMap, key) ==
    IF key \in DOMAIN bonusMap THEN bonusMap[key] ELSE 10

\* score after both bonuses, in thousandths
boostedScore(coffee, rule) ==
    rawScore(coffee, rule)
    * bonusFor(rule.ProcessingBonus, coffee.ProcessingMethod)
    * bonusFor(rule.RoastLevelBonus, coffee.RoastLevel)

calculateTypeScore(coffee, rule) ==
    LET score == boostedScore(coffee, rule)
        maxP  == maxPossibleScore(rule) * 100
    IN  IF maxPossibleScore(rule) > 0
        THEN IF score > maxP THEN One ELSE [num |-> score, den |-> maxP]
        ELSE Zero

-----------------------------------------------------------------------------
(* PokemonMapper.CalculatePokemonTypes *)

\* the slice typeScores, one entry per rule
typeScoresOf(coffee) ==
    {[Type |-> t, Score |-> calculateTypeScore(coffee, typeRules[t])] : t \in TypeNames}

\* the map scores, read back from the entries
scoresOf(typeScores) ==
    [t \in TypeNames |-> (CHOOSE e \in typeScores : e.Type = t).Score]

\* variant: the threshold of the top type is not looked at
meetsThresholdIgnored(score, rule) == TRUE

\* score >= MinimumThreshold (hundredths)
meetsThreshold(score, rule) == score.num * 100 >= rule.MinimumThreshold * score.den

\* score >= MinimumThreshold * 0.8
meetsSecondaryThreshold(score, rule) ==
    score.num * 500 >= 4 * rule.MinimumThreshold * score.den

\* sort.Slice is not stable and the map is ranged in any order: entries of
\* equal score can come out either way.  The pairs (typeScores[0],
\* typeScores[1]) that a descending sort can produce.
sortedPairs(typeScores) ==
    LET tops == {a \in typeScores : \A b \in typeScores : ScoreLeq(b.Score, a.Score)}
        nexts(a) == {c \in typeScores \ {a} :
                        \A b \in typeScores \ {a} : ScoreLeq(b.Score, c.Score)}
    IN  UNION {{<<a, c>> : c \in nexts(a)} : a \in tops}

\* the results CalculatePokemonTypes can return for a coffee
CalculatePokemonTypes(coffee) ==
    LET typeScores == typeScoresOf(coffee)
    IN  {[primaryType |->
             IF meetsThreshold(p[1].Score, typeRules[p[1].Type]) THEN p[1].Type ELSE "normal",
          secondaryType |->
             IF meetsSecondaryThreshold(p[2].Score, typeRules[p[2].Type])
             THEN p[2].Type ELSE "",
          scores |-> scoresOf(typeScores)] : p \in sortedPairs(typeScores)}

\* the scorer has not been called
NoResult == [primaryType |-> "none", secondaryType |-> "none", scores |-> <<>>]

\* buildTraitMapping has not been called
NoMapping == <<[Trait |-> "none", PokemonStat |-> "none"]>>

-----------------------------------------------------------------------------
(* Reference data: table pokemons, and the coffees held by CoffeeStorage *)

\* A type string such as "Fire/Flying" is the sequence of its tags.
Pokemon(id, name, type) == [ID |-> id, Name |-> name, Type |-> type]

\* rows of table pokemons, in id order
Pokemons ==
    <<Pokemon(1, "Bulbasaur", <<"Grass", "Poison">>),
      Pokemon(4, "Charmander", <<"Fire">>),
      Pokemon(6, "Charizard", <<"Fire", "Flying">>),
      Pokemon(7, "Squirtle", <<"Water">>),
      Pokemon(25, "Pikachu", <<"Electric">>),
      Pokemon(39, "Jigglypuff", <<"Normal", "Fairy">>)>>

\* strings.ToLower, and the case folding of the LIKE collation, on the
\* strings that occur in the model
ToLower(str) ==
    CASE str = "Grass" -> "grass"
      [] str = "Poison" -> "poison"
      [] str = "Fire" -> "fire"
      [] str = "Flying" -> "flying"
      [] str = "Water" -> "water"
      [] str = "Electric" -> "electric"
      [] str = "Normal" -> "normal"
      [] str = "Fairy" -> "fairy"
      [] str = "Bulbasaur" -> "bulbasaur"
      [] str = "Charmander" -> "charmander"
      [] str = "Charizard" -> "charizard"
      [] str = "CHARIZARD" -> "charizard"
      [] str = "Squirtle" -> "squirtle"
      [] str = "Pikachu" -> "pikachu"
      [] str = "Jigglypuff" -> "jigglypuff"
      [] str = "Mewtwo" -> "mewtwo"
      [] str = "Dark" -> "dark"
      [] str = "Washed" -> "washed"
      [] OTHER -> str

Coffee(id, traits, roast, proc, notes, rating) ==
    [ID |-> id,
     TastingTraits |-> [t \in TraitNames |-> IF t \in DOMAIN traits THEN traits[t] ELSE 0],
     RoastLevel |-> roast, ProcessingMethod |-> proc,
     TastingNotes |-> notes, Rating |-> rating]

\* the coffees in storage: c1 scores dark with no secondary type (no row of
\* pokemons is dark, so its candidates come from the Normal query), c2
\* scores fire with secondary normal
CoffeeStore ==
    [c1 |-> Coffee("c1", [roast_intensity |-> 7, bitterness |-> 9], "dark", "natural",
                   <<"Dark Chocolate", "", "", "", "">>, 8),
     c2 |-> Coffee("c2", [roast_intensity |-> 9, savory |-> 8, spice |-> 8, body |-> 7,
                          bitterness |-> 5, cleanliness |-> 8, sweetness |-> 5],
                   "medium dark", "washed", NoNotes, 6)]

CoffeeIDs == DOMAIN CoffeeStore

\* CoffeeStorage with nothing stored
NoCoffees == [id \in {} |-> 0]

\* a coffee with nothing filled in: Validate accepts zero traits and an
\* empty roast level and processing method
DefaultCoffee == Coffee("c0", NoTraits, "", "", NoNotes, 0)

\* the coffees of the two scoring scenarios of the specification
ScenarioA ==
    Coffee("a", [sweetness |-> 9, bitterness |-> 1, aromatic_intensity |-> 8],
           "light", "washed", NoNotes, 0)

ScenarioB ==
    Coffee("b", [roast_intensity |-> 9, bitterness |-> 8], "dark", "natural", NoNotes, 0)

\* a dark roast on which the rules fire and dark both reach the cap 1.0
TiedCoffee ==
    Coffee("t", [roast_intensity |-> 10, bitterness |-> 9, savory |-> 10, spice |-> 10],
           "dark", "", NoNotes, 0)

\* what step 1 of MapCoffeeToPokemon can compute for each stored coffee
storedTypes == [id \in CoffeeIDs |-> CalculatePokemonTypes(CoffeeStore[id])]

-----------------------------------------------------------------------------
(* MySQLPokemonStorage *)

\* type LIKE '%q%': q occurs in the type string, ignoring case.  No tag is
\* a substring of another, so q occurs iff its tags are a contiguous run of
\* the type's tags.
typeLike(type, q) ==
    \E off \in 0..(Len(type) - Len(q)) :
        \A i \in 1..Len(q) : ToLower(type[off + i]) = ToLower(q[i])

\* GetPokemonByType on a given content of table pokemons:
\* SELECT ... WHERE type LIKE ? ORDER BY id
GetPokemonByTypeIn(table, pokemonType) ==
    SelectSeq(table, LAMBDA p : typeLike(p.Type, pokemonType))

\* GetPokemonByType on the reference table
GetPokemonByType(pokemonType) == GetPokemonByTypeIn(Pokemons, pokemonType)

\* variant: the usage check never reports a candidate as used
IsPokemonUsedNever(rows, pokemonID) == FALSE

\* variant: the usage check reports a candidate only from its second row on
IsPokemonUsedTwice(rows, pokemonID) ==
    Cardinality({m \in rows : m.pokemon_id = pokemonID}) > 1

\* IsPokemonUsed: SELECT COUNT(*) FROM coffee_pokemon WHERE pokemon_id = ? > 0
IsPokemonUsed(rows, pokemonID) ==
    Cardinality({m \in rows : m.pokemon_id = pokemonID}) > 0

\* variant: table coffee_pokemon without idx_unique_pokemon
uniqueIndexConflictNoIndex(rows, mapping) == FALSE

\* idx_unique_pokemon ON coffee_pokemon(pokemon_id): would inserting violate it
uniqueIndexConflict(rows, mapping) ==
    \E m \in rows : m.pokemon_id = mapping.pokemon_id

\* variant: the INSERT leaves a second, placeholder row behind
CreateCoffeePokemonWithPlaceholder(rows, mapping) ==
    rows \cup {mapping, [mapping EXCEPT !.id = 0, !.nickname = "reserved"]}

\* CreateCoffeePokemon: the table after a successful INSERT
CreateCoffeePokemon(rows, mapping) == rows \cup {mapping}

-----------------------------------------------------------------------------
(* LLMService (the refiner) *)

\* What one call of LLMService.MapCoffeeToPokemon can meet.  kind is
\*   "transport"   client.Do fails (connection refused, ...)
\*   "timeout"     client.Do fails after the 30 s client timeout
\*   "status"      the HTTP status is not 200
\*   "undecodable" the body is not the {"response": ...} envelope
\*   "text"        the envelope decodes; text is its response string
\* A text is either JSON of the expected shape (json = TRUE, carrying
\* selected_pokemon and confidence) or not JSON (json = FALSE, mentions = the
\* names of fallbackParse's list that occur in the lower-cased text).
LLMFailureKinds == {"transport", "timeout", "status", "undecodable"}

\* confidences the refiner may answer: the JSON number is decoded into a
\* float64 as it is, so a value outside [0,1] is a possible answer
LLMConfidences == {[num |-> 95, den |-> 100], [num |-> 15, den |-> 10]}

LLMTexts ==
    {[json |-> TRUE, selected_pokemon |-> n, confidence |-> c, mentions |-> {}] :
        n \in {"CHARIZARD", "jigglypuff", "Mewtwo"}, c \in LLMConfidences}
    \cup
    {[json |-> FALSE, selected_pokemon |-> "", confidence |-> Zero, mentions |-> ms] :
        ms \in {{}, {"charmander", "squirtle"}, {"jigglypuff"}}}

NoText == [json |-> FALSE, selected_pokemon |-> "", confidence |-> Zero, mentions |-> {}]

LLMOutcomes ==
    {[kind |-> k, text |-> NoText] : k \in LLMFailureKinds}
    \cup {[kind |-> "text", text |-> t] : t \in LLMTexts}

fallbackNames == <<"bulbasaur", "charmander", "squirtle", "pikachu", "jigglypuff">>

\* fallbackParse: the first name of the list that the text contains,
\* "bulbasaur" when it contains none; confidence 0.5
fallbackParse(text) ==
    LET hits == {i \in DOMAIN fallbackNames : fallbackNames[i] \in text.mentions}
    IN  [SelectedPokemon |->
             IF hits = {} THEN "bulbasaur"
             ELSE fallbackNames[CHOOSE i \in hits : \A j \in hits : i <= j],
         Confidence |-> [num |-> 5, den |-> 10],
         Description |-> [kind |-> "parse_fallback", name |-> ""],
         TraitMapping |-> <<[Trait |-> "general", PokemonStat |-> "HP"]>>]

\* parseLLMResponse: json.Unmarshal of the text, fallbackParse when that fails
parseLLMResponse(text) ==
    IF text.json
    THEN [SelectedPokemon |-> text.selected_pokemon,
          Confidence |-> text.confidence,
          Description |-> [kind |-> "llm", name |-> ""],
          TraitMapping |-> <<[Trait |-> "roast_intensity", PokemonStat |-> "Attack"]>>]
    ELSE fallbackParse(text)

NilResponse ==
    [SelectedPokemon |-> "", Confidence |-> Zero,
     Description |-> [kind |-> "none", name |-> ""], TraitMapping |-> <<>>]

\* LLMService.MapCoffeeToPokemon: [err, response]
llmMapCoffeeToPokemon(o) ==
    IF o.kind \in LLMFailureKinds
    THEN [err |-> TRUE, response |-> NilResponse]
    ELSE [err |-> FALSE, response |-> parseLLMResponse(o.text)]

-----------------------------------------------------------------------------
(* PokemonService helpers *)

QueryFailures == [primary : BOOLEAN, secondary : BOOLEAN, normal : BOOLEAN]

\* what the query for the primary type contributes
primaryFetched(table, primaryType, fail) ==
    IF fail.primary THEN <<>> ELSE GetPokemonByTypeIn(table, <<primaryType>>)

\* what the query for the secondary type contributes
secondaryFetched(table, secondaryType, fail) ==
    IF secondaryType # "" /\ ~fail.secondary
    THEN GetPokemonByTypeIn(table, <<secondaryType>>) ELSE <<>>

mergedCandidatesIn(table, primaryType, secondaryType, fail) ==
    primaryFetched(table, primaryType, fail)
    \o secondaryFetched(table, secondaryType, fail)

\* variant: the list is returned whatever its length
getTypedCandidatesInUncapped(table, primaryType, secondaryType, fail) ==
    LET merged == mergedCandidatesIn(table, primaryType, secondaryType, fail)
    IN  IF Len(merged) = 0
        THEN (IF fail.normal THEN <<>> ELSE GetPokemonByTypeIn(table, <<"Normal">>))
        ELSE merged

\* variant: the baseline query is never made
getTypedCandidatesInNoBaseline(table, primaryType, secondaryType, fail) ==
    LET merged == mergedCandidatesIn(table, primaryType, secondaryType, fail)
    IN  IF Len(merged) > 10 THEN SubSeq(merged, 1, 10) ELSE merged

\* getTypedCandidates on a given content of table pokemons
getTypedCandidatesIn(table, primaryType, secondaryType, fail) ==
    LET merged == mergedCandidatesIn(table, primaryType, secondaryType, fail)
        candidates ==
            IF Len(merged) = 0
            THEN (IF fail.normal THEN <<>> ELSE GetPokemonByTypeIn(table, <<"Normal">>))
            ELSE merged
    IN  IF Len(candidates) > 10 THEN SubSeq(candidates, 1, 10) ELSE candidates

mergedCandidates(primaryType, secondaryType, fail) ==
    mergedCandidatesIn(Pokemons, primaryType, secondaryType, fail)

getTypedCandidates(primaryType, secondaryType, fail) ==
    getTypedCandidatesIn(Pokemons, primaryType, secondaryType, fail)

\* the failure patterns that only fail calls getTypedCandidates really makes
feasibleFailuresIn(table, primaryType, secondaryType) ==
    {f \in QueryFailures :
        /\ f.secondary => secondaryType # ""
        /\ f.normal => Len(mergedCandidatesIn(table, primaryType, secondaryType, f)) = 0}

feasibleFailures(primaryType, secondaryType) ==
    feasibleFailuresIn(Pokemons, primaryType, secondaryType)

\* getTypedCandidates has not been called
NoCall ==
    [primaryType |-> "none", secondaryType |-> "none",
     fail |-> [primary |-> FALSE, secondary |-> FALSE, normal |-> FALSE],
     result |-> <<>>]

failureCount(f) ==
    (IF f.primary THEN 1 ELSE 0) + (IF f.secondary THEN 1 ELSE 0)
    + (IF f.normal THEN 1 ELSE 0)

\* variant: the scan stops at the first trait that qualifies
buildTraitMappingFirstOnly(traits) ==
    IF traits["sweetness"] >= 7 THEN <<[Trait |-> "sweetness", PokemonStat |-> "HP"]>>
    ELSE IF traits["bitterness"] >= 7
    THEN <<[Trait |-> "bitterness", PokemonStat |-> "Attack"]>>
    ELSE IF traits["body"] >= 7 THEN <<[Trait |-> "body", PokemonStat |-> "Defense"]>>
    ELSE IF traits["citrus_fruits_intensity"] >= 7
    THEN <<[Trait |-> "citrus", PokemonStat |-> "Speed"]>>
    ELSE IF traits["aromatic_intensity"] >= 7
    THEN <<[Trait |-> "aroma", PokemonStat |-> "Special"]>>
    ELSE <<>>

buildTraitMapping(traits) ==
    (IF traits["sweetness"] >= 7 THEN <<[Trait |-> "sweetness", PokemonStat |-> "HP"]>> ELSE <<>>)
    \o (IF traits["bitterness"] >= 7
        THEN <<[Trait |-> "bitterness", PokemonStat |-> "Attack"]>> ELSE <<>>)
    \o (IF traits["body"] >= 7 THEN <<[Trait |-> "body", PokemonStat |-> "Defense"]>> ELSE <<>>)
    \o (IF traits["citrus_fruits_intensity"] >= 7
        THEN <<[Trait |-> "citrus", PokemonStat |-> "Speed"]>> ELSE <<>>)
    \o (IF traits["aromatic_intensity"] >= 7
        THEN <<[Trait |-> "aroma", PokemonStat |-> "Special"]>> ELSE <<>>)

\* variant: the type score is taken over as it is
timesNineTenthsWhole(score) == score

\* typeScore * 0.9
timesNineTenths(score) == [num |-> score.num * 9, den |-> score.den * 10]

\* getBestTypeMatch for a non-empty candidate list (MapCoffeeToPokemon
\* returns before calling it when the list is empty)
getBestTypeMatch(coffee, candidates, primaryType, typeScore) ==
    LET selected == candidates[1]
    IN  [selectedPokemon |-> selected,
         confidence |-> timesNineTenths(typeScore),
         description |-> [kind |-> "type_based", name |-> selected.Name],
         traitMapping |-> buildTraitMapping(coffee.TastingTraits)]

\* variant: the loop takes every candidate for a match
nameMatchesAny(candidates, selectedName) == DOMAIN candidates

\* the candidate loop of MapCoffeeToPokemon: indexes of the candidates whose
\* lower-cased name equals the lower-cased selection
nameMatches(candidates, selectedName) ==
    {i \in DOMAIN candidates : ToLower(candidates[i].Name) = ToLower(selectedName)}

\* variant: a selection that matches no candidate is replaced by the last
\* candidate instead of going through getBestTypeMatch
selectWithLLMLastCandidate(coffee, candidates, primaryType, typeScore, o) ==
    LET res == llmMapCoffeeToPokemon(o)
        hits == nameMatches(candidates, res.response.SelectedPokemon)
    IN  IF res.err
        THEN getBestTypeMatch(coffee, candidates, primaryType, typeScore)
        ELSE [selectedPokemon |->
                  IF hits = {} THEN candidates[Len(candidates)]
                  ELSE candidates[CHOOSE i \in hits : \A j \in hits : i <= j],
              confidence |-> res.response.Confidence,
              description |-> res.response.Description,
              traitMapping |-> res.response.TraitMapping]

\* step 3 of MapCoffeeToPokemon once the refiner has returned
selectWithLLM(coffee, candidates, primaryType, typeScore, o) ==
    LET res == llmMapCoffeeToPokemon(o)
        hits == nameMatches(candidates, res.response.SelectedPokemon)
    IN  IF res.err \/ hits = {}
        THEN getBestTypeMatch(coffee, candidates, primaryType, typeScore)
        ELSE [selectedPokemon |-> candidates[CHOOSE i \in hits : \A j \in hits : i <= j],
              confidence |-> res.response.Confidence,
              description |-> res.response.Description,
              traitMapping |-> res.response.TraitMapping]

calculateLevel(rating) == rating * 5

\* the models.CoffeePokemon built in step 5
newMapping(id, coffee, finalPokemon, confidence, description, traitMapping) ==
    [id |-> id, coffee_id |-> coffee.ID, pokemon_id |-> finalPokemon.ID,
     pokemon_name |-> finalPokemon.Name, nickname |-> "",
     level |-> calculateLevel(coffee.Rating), mapping_confidence |-> confidence,
     llm_description |-> description, trait_mapping |-> traitMapping]

-----------------------------------------------------------------------------
(* The requests: PokemonHandler.GeneratePokemon -> MapCoffeeToPokemon *)

Requests == 1..NumRequests

NilPokemon == [ID |-> 0, Name |-> "", Type |-> <<>>]

\* the locals of MapCoffeeToPokemon before the call
NoLocals ==
    [coffeeID |-> "", primaryType |-> "", secondaryType |-> "", typeScore |-> Zero,
     candidates |-> <<>>, via |-> "none",
     selectedPokemon |-> NilPokemon, confidence |-> Zero,
     description |-> [kind |-> "none", name |-> ""], traitMapping |-> <<>>,
     alternatives |-> <<>>, altIdx |-> 0, finalPokemon |-> NilPokemon]

\* requests are numbered in the order in which the server accepts them
Accepted(r) == pc[r] = "idle" /\ \A q \in Requests : q < r => pc[q] # "idle"

\* variant: a request that ended with an error is taken up again from the
\* start
FinishRetrying(r, result) ==
    /\ pc' = [pc EXCEPT ![r] = IF result = "created" THEN "done" ELSE "idle"]
    /\ outcome' = [outcome EXCEPT ![r] = result]
    /\ req' = [req EXCEPT ![r] = NoLocals]

\* the handler answers; the locals of the call are gone
Finish(r, result) ==
    /\ pc' = [pc EXCEPT ![r] = "done"]
    /\ outcome' = [outcome EXCEPT ![r] = result]
    /\ req' = [req EXCEPT ![r] = NoLocals]

Init ==
    /\ coffee_pokemon = {}
    /\ pc = [r \in Requests |-> "idle"]
    /\ req = [r \in Requests |-> NoLocals]
    /\ outcome = [r \in Requests |-> "none"]
    /\ llmEnabled \in BOOLEAN
    /\ faultsLeft = MaxFaults
    /\ scCoffee = DefaultCoffee
    /\ scResult = NoResult
    /\ coffees = NoCoffees
    /\ lastResp = "none"
    /\ pokemons = Pokemons
    /\ tcCall = NoCall
    /\ scMapping = NoMapping
    /\ brewers = {}
    /\ brewerReq = [b \in BrewerRequests |-> NoBrewerRequest]

\* GeneratePokemon: coffeeService.GetCoffee fails, 404
CoffeeNotFound(r) ==
    /\ Accepted(r)
    /\ \E id \in {"missing"} : id \notin CoffeeIDs
    /\ Finish(r, "not_found")
    /\ UNCHANGED <<coffee_pokemon, llmEnabled, faultsLeft, scVars, crudVars, candVars, brewVars>>

\* MapCoffeeToPokemon steps 1-3 up to the refiner call: CalculatePokemonTypes,
\* getTypedCandidates, and getBestTypeMatch when there is no refiner.  With a
\* refiner the HTTP call is issued.
MapStartWith(r, id, res, fail) ==
    /\ Accepted(r)
    /\ res \in storedTypes[id]
    /\ fail \in feasibleFailures(res.primaryType, res.secondaryType)
    /\ LET coffee == CoffeeStore[id]
            candidates == getTypedCandidates(res.primaryType, res.secondaryType, fail)
            typeScore == res.scores[res.primaryType]
            base == [NoLocals EXCEPT !.coffeeID = id,
                                     !.primaryType = res.primaryType,
                                     !.secondaryType = res.secondaryType,
                                     !.typeScore = typeScore,
                                     !.candidates = candidates]
            best == getBestTypeMatch(coffee, candidates, res.primaryType, typeScore)
        IN  /\ failureCount(fail) <= faultsLeft
            /\ faultsLeft' = faultsLeft - failureCount(fail)
            /\ IF Len(candidates) = 0
               THEN Finish(r, "no_candidates")
               ELSE IF llmEnabled
               THEN /\ req' = [req EXCEPT ![r] = base]
                    /\ pc' = [pc EXCEPT ![r] = "llm"]
                    /\ UNCHANGED outcome
               ELSE /\ req' = [req EXCEPT ![r] =
                            [base EXCEPT !.via = "fallback",
                                         !.selectedPokemon = best.selectedPokemon,
                                         !.confidence = best.confidence,
                                         !.description = best.description,
                                         !.traitMapping = best.traitMapping]]
                    /\ pc' = [pc EXCEPT ![r] = "unique"]
                    /\ UNCHANGED outcome
    /\ UNCHANGED <<coffee_pokemon, llmEnabled, scVars, crudVars, candVars, brewVars>>

MapStart(r) ==
    \E id \in CoffeeIDs :
    \E res \in storedTypes[id] :
    \E fail \in QueryFailures :
        MapStartWith(r, id, res, fail)

\* step 3 with a refiner: the call returns having met outcome o, the answer
\* is matched against the candidates, getBestTypeMatch is used when the call
\* fails or the answer matches nothing
LLMReplyWith(r, o) ==
    /\ pc[r] = "llm"
    /\ LET l == req[r]
           sel == selectWithLLM(CoffeeStore[l.coffeeID], l.candidates, l.primaryType,
                                l.typeScore, o)
       IN  req' = [req EXCEPT ![r] =
                [l EXCEPT !.via = IF sel.description.kind = "type_based"
                                  THEN "fallback" ELSE "llm",
                          !.selectedPokemon = sel.selectedPokemon,
                          !.confidence = sel.confidence,
                          !.description = sel.description,
                          !.traitMapping = sel.traitMapping]]
    /\ pc' = [pc EXCEPT ![r] = "unique"]
    /\ UNCHANGED <<coffee_pokemon, outcome, llmEnabled, faultsLeft, scVars, crudVars, candVars, brewVars>>

LLMReply(r) == \E o \in LLMOutcomes : LLMReplyWith(r, o)

\* ensureUniquePokemon, first IsPokemonUsed and, when used, the query for
\* the alternatives
CheckUsed(r) ==
    /\ pc[r] = "unique"
    /\ \/ /\ faultsLeft > 0
          /\ faultsLeft' = faultsLeft - 1
          /\ Finish(r, "usage_check_failed")
       \/ /\ ~IsPokemonUsed(coffee_pokemon, req[r].selectedPokemon.ID)
          /\ req' = [req EXCEPT ![r].finalPokemon = req[r].selectedPokemon]
          /\ pc' = [pc EXCEPT ![r] = "insert"]
          /\ UNCHANGED <<outcome, faultsLeft>>
       \/ /\ IsPokemonUsed(coffee_pokemon, req[r].selectedPokemon.ID)
          /\ \/ /\ faultsLeft > 0
                /\ faultsLeft' = faultsLeft - 1
                /\ Finish(r, "alternatives_query_failed")
             \/ /\ req' = [req EXCEPT
                             ![r].alternatives = GetPokemonByType(req[r].selectedPokemon.Type),
                             ![r].altIdx = 1]
                /\ pc' = [pc EXCEPT ![r] = "alt"]
                /\ UNCHANGED <<outcome, faultsLeft>>
    /\ UNCHANGED <<coffee_pokemon, llmEnabled, scVars, crudVars, candVars, brewVars>>

\* one pass of the loop over the alternatives; leaving the loop without a
\* hit is the "already used and no alternatives available" error
AltCheck(r) ==
    /\ pc[r] = "alt"
    /\ LET l == req[r]
           alt == l.alternatives[l.altIdx]
           continue ==
               IF l.altIdx < Len(l.alternatives)
               THEN /\ req' = [req EXCEPT ![r].altIdx = l.altIdx + 1]
                    /\ UNCHANGED <<pc, outcome>>
               ELSE Finish(r, "exhausted")
       IN  IF l.altIdx > Len(l.alternatives)
           THEN /\ Finish(r, "exhausted")
                /\ UNCHANGED faultsLeft
           ELSE \/ /\ faultsLeft > 0
                   /\ faultsLeft' = faultsLeft - 1
                   /\ continue
                \/ /\ IsPokemonUsed(coffee_pokemon, alt.ID)
                   /\ continue
                   /\ UNCHANGED faultsLeft
                \/ /\ ~IsPokemonUsed(coffee_pokemon, alt.ID)
                   /\ req' = [req EXCEPT ![r].finalPokemon = alt]
                   /\ pc' = [pc EXCEPT ![r] = "insert"]
                   /\ UNCHANGED <<outcome, faultsLeft>>
    /\ UNCHANGED <<coffee_pokemon, llmEnabled, scVars, crudVars, candVars, brewVars>>

\* step 5: build the mapping and CreateCoffeePokemon; the INSERT fails on a
\* storage error or on idx_unique_pokemon
Insert(r) ==
    /\ pc[r] = "insert"
    /\ LET l == req[r]
           mapping == newMapping(r, CoffeeStore[l.coffeeID], l.finalPokemon,
                                 l.confidence, l.description, l.traitMapping)
       IN  \/ /\ faultsLeft > 0
              /\ faultsLeft' = faultsLeft - 1
              /\ Finish(r, "persist_failed")
              /\ UNCHANGED coffee_pokemon
           \/ /\ uniqueIndexConflict(coffee_pokemon, mapping)
              /\ Finish(r, "persist_conflict")
              /\ UNCHANGED <<coffee_pokemon, faultsLeft>>
           \/ /\ ~uniqueIndexConflict(coffee_pokemon, mapping)
              /\ coffee_pokemon' = CreateCoffeePokemon(coffee_pokemon, mapping)
              /\ Finish(r, "created")
              /\ UNCHANGED faultsLeft
    /\ UNCHANGED <<llmEnabled, scVars, crudVars, candVars, brewVars>>

Next ==
    \/ \E r \in Requests : CoffeeNotFound(r)
    \/ \E r \in Requests : MapStart(r)
    \/ \E r \in Requests : LLMReply(r)
    \/ \E r \in Requests : CheckUsed(r)
    \/ \E r \in Requests : AltCheck(r)
    \/ \E r \in Requests : Insert(r)

Spec == Init /\ [][Next]_vars

-----------------------------------------------------------------------------
(* Sequential service: a request is accepted only when no other is running *)

NoneInFlight == \A q \in Requests : pc[q] \in {"idle", "done"}

SeqCoffeeNotFound(r) == NoneInFlight /\ CoffeeNotFound(r)

SeqMapStart(r) == NoneInFlight /\ MapStart(r)

NextSeq ==
    \/ \E r \in Requests : SeqCoffeeNotFound(r)
    \/ \E r \in Requests : SeqMapStart(r)
    \/ \E r \in Requests : LLMReply(r)
    \/ \E r \in Requests : CheckUsed(r)
    \/ \E r \in Requests : AltCheck(r)
    \/ \E r \in Requests : Insert(r)

SpecSeq == Init /\ [][NextSeq]_vars

-----------------------------------------------------------------------------
(* Refiner configured but failing on every call, storage healthy *)

InitRefinerDown ==
    /\ coffee_pokemon = {}
    /\ pc = [r \in Requests |-> "idle"]
    /\ req = [r \in Requests |-> NoLocals]
    /\ outcome = [r \in Requests |-> "none"]
    /\ llmEnabled = TRUE
    /\ faultsLeft = 0
    /\ scCoffee = DefaultCoffee
    /\ scResult = NoResult
    /\ coffees = NoCoffees
    /\ lastResp = "none"
    /\ pokemons = Pokemons
    /\ tcCall = NoCall
    /\ scMapping = NoMapping
    /\ brewers = {}
    /\ brewerReq = [b \in BrewerRequests |-> NoBrewerRequest]

RefinerDownLLMReply(r) ==
    \E o \in LLMOutcomes : o.kind \in LLMFailureKinds /\ LLMReplyWith(r, o)

NextRefinerDown ==
    \/ \E r \in Requests : CoffeeNotFound(r)
    \/ \E r \in Requests : MapStart(r)
    \/ \E r \in Requests : RefinerDownLLMReply(r)
    \/ \E r \in Requests : CheckUsed(r)
    \/ \E r \in Requests : AltCheck(r)
    \/ \E r \in Requests : Insert(r)

SpecRefinerDown == InitRefinerDown /\ [][NextRefinerDown]_vars

-----------------------------------------------------------------------------
(* The scorer on its own: a coffee is filled in, then CalculatePokemonTypes *)

\* the trait values tried: below every Min, at the Min and Max of the
\* negative weights, at the usual Min, at the usual Max, and above it
TraitLevels == {2, 5, 7, 9, 10}

NoteSamples ==
    {<<"Dark Chocolate", "", "", "", "">>,
     <<"caramel", "Burnt Toast", "Jasmine Tea", "blueberry", "">>,
     <<"Burnt Toast", "caramel", "Burnt Toast", "caramel", "Burnt Toast">>}

\* how many fields of the coffee differ from DefaultCoffee
variedCount(coffee) ==
    Cardinality({t \in TraitNames : coffee.TastingTraits[t] # 0})
    + (IF coffee.RoastLevel # "" THEN 1 ELSE 0)
    + (IF coffee.ProcessingMethod # "" THEN 1 ELSE 0)
    + (IF coffee.TastingNotes # NoNotes THEN 1 ELSE 0)

InitScore ==
    /\ coffee_pokemon = {}
    /\ pc = [r \in Requests |-> "idle"]
    /\ req = [r \in Requests |-> NoLocals]
    /\ outcome = [r \in Requests |-> "none"]
    /\ llmEnabled = FALSE
    /\ faultsLeft = 0
    /\ scCoffee \in {DefaultCoffee, ScenarioA, ScenarioB, TiedCoffee}
    /\ scResult = NoResult
    /\ coffees = NoCoffees
    /\ lastResp = "none"
    /\ pokemons = Pokemons
    /\ tcCall = NoCall
    /\ scMapping = NoMapping
    /\ brewers = {}
    /\ brewerReq = [b \in BrewerRequests |-> NoBrewerRequest]

SetTrait ==
    /\ scResult = NoResult
    /\ variedCount(scCoffee) < MaxVaried
    /\ \E t \in TraitNames, v \in TraitLevels :
        /\ scCoffee.TastingTraits[t] = 0
        /\ scCoffee' = [scCoffee EXCEPT !.TastingTraits[t] = v]
    /\ UNCHANGED <<scResult, scMapping, pipeVars, crudVars, candVars, brewVars>>

SetRoastLevel ==
    /\ scResult = NoResult
    /\ variedCount(scCoffee) < MaxVaried
    /\ scCoffee.RoastLevel = ""
    /\ \E l \in RoastLevels : scCoffee' = [scCoffee EXCEPT !.RoastLevel = l]
    /\ UNCHANGED <<scResult, scMapping, pipeVars, crudVars, candVars, brewVars>>

SetProcessingMethod ==
    /\ scResult = NoResult
    /\ variedCount(scCoffee) < MaxVaried
    /\ scCoffee.ProcessingMethod = ""
    /\ \E m \in ProcessingMethods : scCoffee' = [scCoffee EXCEPT !.ProcessingMethod = m]
    /\ UNCHANGED <<scResult, scMapping, pipeVars, crudVars, candVars, brewVars>>

SetTastingNotes ==
    /\ scResult = NoResult
    /\ variedCount(scCoffee) < MaxVaried
    /\ scCoffee.TastingNotes = NoNotes
    /\ \E ns \in NoteSamples : scCoffee' = [scCoffee EXCEPT !.TastingNotes = ns]
    /\ UNCHANGED <<scResult, scMapping, pipeVars, crudVars, candVars, brewVars>>

Calculate ==
    /\ scResult = NoResult
    /\ scResult' \in CalculatePokemonTypes(scCoffee)
    /\ UNCHANGED <<scCoffee, scMapping, pipeVars, crudVars, candVars, brewVars>>

\* getBestTypeMatch builds the trait mapping of the coffee that was scored
BuildTraitMapping ==
    /\ scResult # NoResult
    /\ scMapping' = buildTraitMapping(scCoffee.TastingTraits)
    /\ UNCHANGED <<scCoffee, scResult, pipeVars, crudVars, candVars, brewVars>>

NextScore ==
    \/ SetTrait
    \/ SetRoastLevel
    \/ SetProcessingMethod
    \/ SetTastingNotes
    \/ Calculate
    \/ BuildTraitMapping

SpecScore == InitScore /\ [][NextScore]_vars

-----------------------------------------------------------------------------
(* The coffee handlers: CreateCoffee, UpdateCoffee, and GeneratePokemon     *)
(* reading what they stored                                                 *)

\* uuid.New(): the ids handed out, in order of creation
NewIDs == <<"n1", "n2", "n3", "n4">>

StoreIDs == {NewIDs[i] : i \in 1..MaxCoffees}

\* request bodies: Name, TastingTraits, Rating, RoastLevel, ProcessingMethod
\* and EndTime of the decoded models.Coffee.  The bodies Validate accepts,
\* and those bodies with one field spoiled.
ValidInputs ==
    [Name : {"Gesha"}, TastingTraits : {NoTraits, [NoTraits EXCEPT !["sweetness"] = 10]},
     Rating : {0, 10}, RoastLevel : {"Dark"}, ProcessingMethod : {""},
     EndTime : {[Minutes |-> 0, Seconds |-> 0]}]

spoiled(c) ==
    {[c EXCEPT !.Name = ""],
     [c EXCEPT !.TastingTraits["body"] = -1],
     [c EXCEPT !.TastingTraits["spice"] = 11],
     [c EXCEPT !.Rating = -1],
     [c EXCEPT !.Rating = 11],
     [c EXCEPT !.RoastLevel = "burnt"],
     [c EXCEPT !.ProcessingMethod = "boiled"],
     [c EXCEPT !.EndTime = [Minutes |-> 3, Seconds |-> 60]]}

CoffeeInputs ==
    ValidInputs \cup spoiled(CHOOSE c \in ValidInputs : c.Rating = 10 /\ c.TastingTraits = NoTraits)

\* variant: only the upper end of the trait range is checked
TastingTraitsValidateUpper(traits) == \A t \in TraitNames : traits[t] <= 10

\* TastingTraits.Validate: TRUE when it returns nil
TastingTraitsValidate(traits) ==
    \A t \in TraitNames : ~(traits[t] < 0 \/ traits[t] > 10)

ValidateRoastLevel(level) == ToLower(level) \in RoastLevels

ValidateProcessingMethod(method) == ToLower(method) \in ProcessingMethods

\* Coffee.Validate: TRUE when it returns nil
Validate(c) ==
    /\ c.Name # ""
    /\ ~(c.Rating < 0 \/ c.Rating > 10)
    /\ c.RoastLevel # "" => ValidateRoastLevel(c.RoastLevel)
    /\ c.ProcessingMethod # "" => ValidateProcessingMethod(c.ProcessingMethod)
    /\ ~(c.EndTime.Minutes < 0 \/ c.EndTime.Seconds < 0 \/ c.EndTime.Seconds >= 60)
    /\ TastingTraitsValidate(c.TastingTraits)

\* the coffee handed to storage: Validate has lower-cased the roast level
\* and the processing method; the fields the mapping reads are kept
validated(id, c) ==
    Coffee(id, c.TastingTraits, ToLower(c.RoastLevel), ToLower(c.ProcessingMethod),
           NoNotes, c.Rating)

\* CoffeeHandler.CreateCoffee -> CoffeeService.CreateCoffee -> storage.Save
CreateCoffeeWith(c) ==
    /\ Cardinality(DOMAIN coffees) < MaxCoffees
    /\ IF ~Validate(c)
       THEN /\ lastResp' = "create_400"
            /\ UNCHANGED coffees
       ELSE LET id == NewIDs[Cardinality(DOMAIN coffees) + 1]
            IN  /\ coffees' = [i \in DOMAIN coffees \cup {id} |->
                                 IF i = id THEN validated(id, c) ELSE coffees[i]]
                /\ lastResp' = "create_201"
    /\ UNCHANGED <<pipeVars, scVars, candVars, brewVars>>

CreateCoffee == \E c \in CoffeeInputs : CreateCoffeeWith(c)

\* CoffeeHandler.UpdateCoffee -> CoffeeService.UpdateCoffee -> storage.Update;
\* the handler answers 404 for every error
UpdateCoffeeWith(id, c) ==
    /\ IF ~Validate(c) \/ id \notin DOMAIN coffees
       THEN /\ lastResp' = "update_404"
            /\ UNCHANGED coffees
       ELSE /\ coffees' = [coffees EXCEPT ![id] = validated(id, c)]
            /\ lastResp' = "update_200"
    /\ UNCHANGED <<pipeVars, scVars, candVars, brewVars>>

UpdateCoffee == \E id \in StoreIDs : \E c \in CoffeeInputs : UpdateCoffeeWith(id, c)

\* PokemonHandler.GeneratePokemon on this store, up to step 1 of
\* MapCoffeeToPokemon: GetCoffee, then CalculatePokemonTypes on what it
\* returned.  Steps 2-5 are MapStart .. Insert.
GenerateStored ==
    /\ \E id \in StoreIDs :
        IF id \notin DOMAIN coffees
        THEN /\ lastResp' = "generate_404"
             /\ UNCHANGED scVars
        ELSE /\ scCoffee' = coffees[id]
             /\ scResult' \in CalculatePokemonTypes(coffees[id])
             /\ lastResp' = "generate_scored"
             /\ UNCHANGED scMapping
    /\ UNCHANGED <<pipeVars, coffees, candVars, brewVars>>

InitCrud ==
    /\ coffee_pokemon = {}
    /\ pc = [r \in Requests |-> "idle"]
    /\ req = [r \in Requests |-> NoLocals]
    /\ outcome = [r \in Requests |-> "none"]
    /\ llmEnabled = FALSE
    /\ faultsLeft = 0
    /\ scCoffee = DefaultCoffee
    /\ scResult = NoResult
    /\ coffees = NoCoffees
    /\ lastResp = "none"
    /\ pokemons = Pokemons
    /\ tcCall = NoCall
    /\ scMapping = NoMapping
    /\ brewers = {}
    /\ brewerReq = [b \in BrewerRequests |-> NoBrewerRequest]

NextCrud ==
    \/ CreateCoffee
    \/ UpdateCoffee
    \/ GenerateStored

SpecCrud == InitCrud /\ [][NextCrud]_vars

-----------------------------------------------------------------------------
(* PokemonHandler.UpdateNickname next to the sequential service *)

Nicknames == {"", "Sparky"}

NicknameCoffeeIDs == CoffeeIDs \cup {"missing"}

\* the decoded request body; valid = FALSE when json Decode fails
NicknameBodies ==
    {[valid |-> TRUE, Nickname |-> n] : n \in Nicknames}
    \cup {[valid |-> FALSE, Nickname |-> ""]}

renamed(m, nickname) == [m EXCEPT !.nickname = nickname]

\* variant: the UPDATE without its WHERE clause
UpdateCoffeePokemonNicknameAllRows(rows, coffeeID, nickname) ==
    [rows |-> {renamed(m, nickname) : m \in rows},
     rowsAffected |-> Cardinality({m \in rows : m.nickname # nickname})]

\* UPDATE coffee_pokemon SET nickname = ? WHERE coffee_id = ?
\* rowsAffected counts the rows the statement changed (the DSN does not set
\* clientFoundRows), so a row that already has the nickname is not counted
UpdateCoffeePokemonNickname(rows, coffeeID, nickname) ==
    LET matched == {m \in rows : m.coffee_id = coffeeID}
    IN  [rows |-> (rows \ matched) \cup {renamed(m, nickname) : m \in matched},
         rowsAffected |-> Cardinality({m \in matched : m.nickname # nickname})]

\* PUT /pokemon/{coffee_id}/nickname: 400 for an undecodable body, 404 for
\* any error of the storage (Exec failed, or no row affected), else 200
UpdateNicknameWith(coffeeID, body, fail) ==
    /\ fail => faultsLeft > 0
    /\ IF ~body.valid
       THEN /\ lastResp' = "nickname_400"
            /\ UNCHANGED <<coffee_pokemon, faultsLeft>>
       ELSE IF fail
       THEN /\ faultsLeft' = faultsLeft - 1
            /\ lastResp' = "nickname_404"
            /\ UNCHANGED coffee_pokemon
       ELSE LET res == UpdateCoffeePokemonNickname(coffee_pokemon, coffeeID,
                                                   body.Nickname)
            IN  /\ coffee_pokemon' = res.rows
                /\ lastResp' = IF res.rowsAffected = 0 THEN "nickname_404"
                                ELSE "nickname_200"
                /\ UNCHANGED faultsLeft
    /\ UNCHANGED <<pc, req, outcome, llmEnabled, scVars, coffees, candVars, brewVars>>

UpdateNickname ==
    \E coffeeID \in NicknameCoffeeIDs, body \in NicknameBodies, fail \in BOOLEAN :
        UpdateNicknameWith(coffeeID, body, fail)

SeqUpdateNickname == NoneInFlight /\ UpdateNickname

NextNickname ==
    \/ \E r \in Requests : SeqCoffeeNotFound(r)
    \/ \E r \in Requests : SeqMapStart(r)
    \/ \E r \in Requests : LLMReply(r)
    \/ \E r \in Requests : CheckUsed(r)
    \/ \E r \in Requests : AltCheck(r)
    \/ \E r \in Requests : Insert(r)
    \/ SeqUpdateNickname

SpecNickname == Init /\ [][NextNickname]_vars

-----------------------------------------------------------------------------
(* getTypedCandidates on its own, over contents of table pokemons *)

PokemonNames ==
    <<"Bulbasaur", "Ivysaur", "Venusaur", "Charmander", "Charmeleon", "Charizard",
      "Squirtle", "Wartortle", "Blastoise", "Caterpie", "Metapod", "Butterfree",
      "Weedle", "Kakuna">>

\* type strings of the rows: "Fire", "Normal/Fairy" and "Water"
TypeSamples == {<<"Fire">>, <<"Normal", "Fairy">>, <<"Water">>}

\* contents of table pokemons with up to MaxPokemons rows, ids 1..n: the
\* first j rows have one type string, the rows after them another
PokemonTables ==
    {[i \in 1..n |-> Pokemon(i, PokemonNames[i], IF i <= j THEN a ELSE b)] :
        n \in 0..MaxPokemons, j \in 0..MaxPokemons, a \in TypeSamples, b \in TypeSamples}

\* the types MapCoffeeToPokemon hands over, as CalculatePokemonTypes names them
CallPrimaryTypes == {"fire", "normal", "water"}
CallSecondaryTypes == {"", "fairy"}

InitCandidates ==
    /\ coffee_pokemon = {}
    /\ pc = [r \in Requests |-> "idle"]
    /\ req = [r \in Requests |-> NoLocals]
    /\ outcome = [r \in Requests |-> "none"]
    /\ llmEnabled = FALSE
    /\ faultsLeft = 0
    /\ scCoffee = DefaultCoffee
    /\ scResult = NoResult
    /\ coffees = NoCoffees
    /\ lastResp = "none"
    /\ pokemons \in PokemonTables
    /\ tcCall = NoCall
    /\ scMapping = NoMapping
    /\ brewers = {}
    /\ brewerReq = [b \in BrewerRequests |-> NoBrewerRequest]

GetTypedCandidatesCall(primaryType, secondaryType, fail) ==
    /\ fail \in feasibleFailuresIn(pokemons, primaryType, secondaryType)
    /\ tcCall' = [primaryType |-> primaryType, secondaryType |-> secondaryType,
                  fail |-> fail,
                  result |-> getTypedCandidatesIn(pokemons, primaryType,
                                                  secondaryType, fail)]
    /\ UNCHANGED <<pokemons, pipeVars, scVars, crudVars, brewVars>>

NextCandidates ==
    \E primaryType \in CallPrimaryTypes, secondaryType \in CallSecondaryTypes,
       fail \in QueryFailures :
        GetTypedCandidatesCall(primaryType, secondaryType, fail)

SpecCandidates == InitCandidates /\ [][NextCandidates]_vars

-----------------------------------------------------------------------------
(* Brewers: BrewerHandler.CreateBrewer, requests served concurrently *)

\* the limit ValidateBrewerLimit tests against
BrewerLimit == 4

\* request bodies: the fields name and pokeball_type
BrewerNames == {"", "V60"}
BrewerPokeballTypes == {"poke-ball", "master-ball"}

\* GetAvailablePokeballTypes, the types Brewer.Validate accepts
validPokeballs == {"poke-ball", "great-ball", "ultra-ball", "fast-ball"}

\* Brewer.Validate returns nil
BrewerValid(name, pokeballType) ==
    /\ name # ""
    /\ pokeballType \in validPokeballs

\* ValidateBrewerLimit returns nil: GetAllBrewers succeeded and fewer than
\* four rows came back
ValidateBrewerLimit(rows, readFails) ==
    /\ ~readFails
    /\ ~(Cardinality(rows) >= BrewerLimit)

\* the handler up to and including ValidateBrewerLimit: decode the body,
\* read the rows, answer 400 or go on to BrewerService.CreateBrewer
CreateBrewerValidate(b, decoded, name, pokeballType, readFails) ==
    /\ brewerReq[b].pc = "idle"
    /\ brewerReq' =
          [brewerReq EXCEPT ![b] =
              IF decoded /\ ValidateBrewerLimit(brewers, readFails)
              THEN [pc |-> "validated", Name |-> name, PokeballType |-> pokeballType]
              ELSE [pc |-> "rejected", Name |-> "", PokeballType |-> ""]]
    /\ UNCHANGED <<brewers, pipeVars, scVars, crudVars, candVars>>

\* BrewerService.CreateBrewer and the answer: Validate, SaveBrewer (an
\* INSERT under a fresh uuid), 201 or 400
CreateBrewerSave(b, saveFails) ==
    /\ brewerReq[b].pc = "validated"
    /\ IF BrewerValid(brewerReq[b].Name, brewerReq[b].PokeballType) /\ ~saveFails
       THEN /\ brewers' = brewers \cup {[ID |-> b, Name |-> brewerReq[b].Name,
                                          PokeballType |-> brewerReq[b].PokeballType]}
            /\ brewerReq' = [brewerReq EXCEPT ![b].pc = "created"]
       ELSE /\ brewers' = brewers
            /\ brewerReq' = [brewerReq EXCEPT
                                ![b] = [pc |-> "rejected", Name |-> "", PokeballType |-> ""]]
    /\ UNCHANGED <<pipeVars, scVars, crudVars, candVars>>

NextBrewer ==
    \E b \in BrewerRequests :
        \/ \E decoded \in BOOLEAN, name \in BrewerNames,
              pokeballType \in BrewerPokeballTypes, readFails \in BOOLEAN :
              CreateBrewerValidate(b, decoded, name, pokeballType, readFails)
        \/ \E saveFails \in BOOLEAN : CreateBrewerSave(b, saveFails)

SpecBrewer == Init /\ [][NextBrewer]_vars

-----------------------------------------------------------------------------
(* Properties *)

\* the request of a row is the request that wrote it
rowsOf(r) == {m \in coffee_pokemon : m.id = r}

\* candidate id is held by a persisted row
persisted(pokemonID) == \E m \in coffee_pokemon : m.pokemon_id = pokemonID

\* the categories (type tags) of the reference table
Categories == UNION {Range(Pokemons[i].Type) : i \in DOMAIN Pokemons}

inCategory(p, X) == typeLike(p.Type, <<X>>)

\* the candidate ids of each category
categoryIDs ==
    [X \in Categories |->
        {Pokemons[i].ID : i \in {j \in DOMAIN Pokemons : inCategory(Pokemons[j], X)}}]

\* every candidate of category X is in a persisted mapping
allUsed(X) == \A id \in categoryIDs[X] : persisted(id)

\* the shortlist of request r consists only of candidates of category X
shortlistOnly(r, X) ==
    /\ Len(req[r].candidates) > 0
    /\ \A i \in DOMAIN req[r].candidates : req[r].candidates[i].ID \in categoryIDs[X]

\* C1: under every interleaving of requests, no two persisted coffee_pokemon
\* rows have the same pokemon_id.
C1_UniquePokemonId ==
    \A m1, m2 \in coffee_pokemon : m1.pokemon_id = m2.pokemon_id => m1 = m2

\* one of two racing requests wrote its row, the other was turned away by
\* the index
C1_Witness ==
    \E r1, r2 \in Requests :
        /\ outcome[r1] = "created"
        /\ outcome[r2] = "persist_conflict"
        /\ Cardinality(coffee_pokemon) = 1

\* C2: the test "candidate is unused" and the claiming write are one atomic
\* step: never have two in-flight requests both found the same candidate id
\* unused while neither has written yet.
C2_AtomicReservation ==
    \A r1, r2 \in Requests :
        (r1 # r2 /\ pc[r1] = "insert" /\ pc[r2] = "insert")
            => req[r1].finalPokemon.ID # req[r2].finalPokemon.ID

\* C3: a request whose insert collides with a row committed by another
\* request goes on with the alternative search; it never ends with a
\* persistence failure caused by the uniqueness conflict.
C3_ConflictContinues ==
    \A r \in Requests : outcome[r] # "persist_conflict"

\* C4: while every candidate of a category is persisted, a request whose
\* shortlist consists only of that category's candidates writes no row, never
\* gets as far as an insert, and, when storage answers its queries, ends with
\* the exhaustion error.  (A request that passed the usage check before the
\* category filled up is the collision case of C3; it writes no row either.)
C4_Exhaustion ==
    [][\A r \in Requests :
          (pc[r] \in {"llm", "unique", "alt", "insert"}
           /\ (pc'[r] # pc[r] \/ req'[r] # req[r]))
          => \A X \in Categories :
               (allUsed(X) /\ shortlistOnly(r, X))
               => /\ coffee_pokemon' = coffee_pokemon
                  /\ pc[r] # "insert" => pc'[r] # "insert"
                  /\ (pc[r] # "insert" /\ pc'[r] = "done" /\ faultsLeft' = faultsLeft)
                         => outcome'[r] = "exhausted"]_vars

\* a request is walking the alternatives of an exhausted category
C4_Witness ==
    \E r \in Requests : \E X \in Categories :
        /\ pc[r] = "alt"
        /\ shortlistOnly(r, X)
        /\ allUsed(X)
        /\ req[r].altIdx = Len(req[r].alternatives)

\* C5: with requests served one after the other, a request never tries to
\* insert a candidate id that an earlier request was assigned: it is assigned
\* another id or ends with an error, and never with an insert collision.
C5_SequentialDistinct ==
    /\ \A r \in Requests : pc[r] = "insert" => ~persisted(req[r].finalPokemon.ID)
    /\ \A r \in Requests : outcome[r] # "persist_conflict"
    /\ \A r1, r2 \in Requests : \A m1 \in rowsOf(r1) : \A m2 \in rowsOf(r2) :
            r1 # r2 => m1.pokemon_id # m2.pokemon_id

\* the first request was assigned the only candidate of the category and the
\* second one ended with the exhaustion error
C5_Witness ==
    \E r1, r2 \in Requests :
        /\ r1 < r2
        /\ outcome[r1] = "created"
        /\ outcome[r2] = "exhausted"
        /\ \E X \in Categories : allUsed(X) /\ \A m \in rowsOf(r1) :
               m.pokemon_id \in categoryIDs[X]

\* the outcomes that are errors
ErrorOutcomes ==
    {"not_found", "no_candidates", "usage_check_failed", "alternatives_query_failed",
     "exhausted", "persist_failed", "persist_conflict"}

\* C6: a request ends either in success with exactly one new row, or in an
\* error with the table as it was before; no step of a request, the
\* refiner's timeout and a failed storage write included, changes the table
\* otherwise.
C6_AllOrNothing ==
    /\ [](\A r \in Requests :
            /\ outcome[r] = "created" => Cardinality(rowsOf(r)) = 1
            /\ outcome[r] # "created" => rowsOf(r) = {}
            /\ pc[r] = "done" <=> outcome[r] \in ErrorOutcomes \cup {"created"})
    /\ [][\/ coffee_pokemon' = coffee_pokemon
          \/ \E r \in Requests :
                /\ pc[r] = "insert"
                /\ outcome'[r] = "created"
                /\ \E m \in rowsOf(r)' : m \notin coffee_pokemon
                                         /\ coffee_pokemon' = coffee_pokemon \cup {m}]_vars

\* with a refiner configured, one request failed on its storage write and
\* left nothing behind while another one succeeded
C6_Witness ==
    /\ llmEnabled
    /\ \E r1, r2 \in Requests :
        /\ outcome[r1] = "persist_failed"
        /\ outcome[r2] = "created"
        /\ Cardinality(coffee_pokemon) = 1

\* C7: with the refiner failing on every call, a request for which
\* MapCoffeeToPokemon was called and has returned has either persisted its
\* record or returned the exhaustion error.
C7_FallbackTotality ==
    \A r \in Requests :
        (pc[r] = "done" /\ outcome[r] # "not_found")
            => outcome[r] \in {"created", "exhausted"}

\* the refiner outcomes C8 names, for the call of request r
refinerUnavailable(r, o) ==
    \/ o.kind \in LLMFailureKinds
    \/ /\ o.kind = "text"
       /\ o.text.json
       /\ nameMatches(req[r].candidates, o.text.selected_pokemon) = {}

C9_NonJsonFallsBack ==
    [][\A r \in Requests : \A o \in LLMOutcomes :
          (o.kind = "text" /\ ~o.text.json /\ LLMReplyWith(r, o))
          => /\ req'[r].via = "fallback"
             /\ req'[r].selectedPokemon = req[r].candidates[1]
             /\ ScoreEq(req'[r].confidence, timesNineTenths(req[r].typeScore))]_vars

\* C10: every score calculateTypeScore returns lies in [0,1].
C10_ScoreInUnitInterval ==
    scResult # NoResult
        => \A t \in TypeNames :
              /\ scResult.scores[t].num >= 0
              /\ scResult.scores[t].num <= scResult.scores[t].den

\* score >= hundredths / 100
atLeast(score, hundredths) == score.num * 100 >= hundredths * score.den

\* C11: a call of CalculatePokemonTypes returns what every other call with
\* the same coffee and rule table returns: the same primary type, secondary
\* type and scores.
C11_Deterministic ==
    scResult # NoResult
        => \A res \in CalculatePokemonTypes(scCoffee) : res = scResult

\* C12: for the coffee of scenario A the primary type is fairy and fairy's
\* score is at least its MinimumThreshold.
C12_ScenarioA ==
    (scCoffee = ScenarioA /\ scResult # NoResult)
        => /\ scResult.primaryType = "fairy"
           /\ atLeast(scResult.scores["fairy"], typeRules["fairy"].MinimumThreshold)

\* C13: for the coffee of scenario B the primary type is dark and dark's
\* score is at least 0.6.
C13_ScenarioB ==
    (scCoffee = ScenarioB /\ scResult # NoResult)
        => /\ scResult.primaryType = "dark"
           /\ atLeast(scResult.scores["dark"], 60)

\* the scorer has run on the coffee of scenario B
C13_Witness == scCoffee = ScenarioB /\ scResult # NoResult

\* every trait and the rating of the coffee are in 0..10
inRange(c) ==
    /\ \A t \in TraitNames : c.TastingTraits[t] \in 0..10
    /\ c.Rating \in 0..10

\* C14: a coffee with a trait or a rating outside 0..10 is rejected with an
\* error by CreateCoffee and by UpdateCoffee and is not stored; every stored
\* coffee, and every coffee GeneratePokemon hands to CalculatePokemonTypes,
\* has all traits and its rating in 0..10.
C14_ValidatedBeforeScoring ==
    /\ [](/\ \A id \in DOMAIN coffees : inRange(coffees[id])
          /\ scResult # NoResult => inRange(scCoffee))
    /\ [][\A c \in CoffeeInputs :
            ~inRange(c)
            => /\ CreateCoffeeWith(c)
                  => (coffees' = coffees /\ lastResp' = "create_400")
               /\ \A id \in StoreIDs :
                    UpdateCoffeeWith(id, c)
                       => (coffees' = coffees /\ lastResp' = "update_404")]_vars

\* a stored coffee was scored by GeneratePokemon and a later update with an
\* invalid body was turned away
C14_Witness ==
    /\ lastResp = "update_404"
    /\ scResult # NoResult
    /\ \E id \in DOMAIN coffees : scCoffee.ID = id

\* C15: every coffee id appears in at most one row of coffee_pokemon; a
\* second MapCoffeeToPokemon request for a coffee that already has a
\* mapping adds no second row.
C15_OneMappingPerCoffee ==
    \A m1, m2 \in coffee_pokemon : m1.coffee_id = m2.coffee_id => m1 = m2

\* C16: every row of coffee_pokemon has mapping_confidence in [0,1], whether
\* the confidence came from the refiner's answer or from getBestTypeMatch.
C16_ConfidenceInUnitInterval ==
    \A m \in coffee_pokemon :
        /\ m.mapping_confidence.num >= 0
        /\ m.mapping_confidence.num <= m.mapping_confidence.den

\* a row of coffee_pokemon without its nickname
withoutNickname(m) == [m EXCEPT !.nickname = ""]

\* C17: UpdateNickname changes nothing but the nickname of the rows of the
\* given coffee: every row keeps its pokemon, level, confidence, description
\* and trait mapping, no row is added or removed, rows of other coffees are
\* untouched, and for a coffee without a row the answer is the not-found
\* error and the table is unchanged.
C17_NicknameOnly ==
    [][\A id \in NicknameCoffeeIDs, b \in NicknameBodies, f \in BOOLEAN :
          UpdateNicknameWith(id, b, f)
          => /\ Cardinality(coffee_pokemon') = Cardinality(coffee_pokemon)
             /\ {withoutNickname(m) : m \in coffee_pokemon'}
                   = {withoutNickname(m) : m \in coffee_pokemon}
             /\ {m \in coffee_pokemon' : m.coffee_id # id}
                   = {m \in coffee_pokemon : m.coffee_id # id}
             /\ (b.valid /\ \A m \in coffee_pokemon : m.coffee_id # id)
                   => /\ coffee_pokemon' = coffee_pokemon
                      /\ lastResp' = "nickname_404"]_vars

\* a nickname was given to the row of one coffee while the row of another
\* coffee kept its empty nickname
C17_Witness ==
    /\ lastResp = "nickname_200"
    /\ \E m1, m2 \in coffee_pokemon :
          /\ m1.coffee_id # m2.coffee_id
          /\ m1.nickname = "Sparky"
          /\ m2.nickname = ""

\* the entries of typeScores no other entry outscores
highestScoring(coffee) ==
    LET typeScores == typeScoresOf(coffee)
    IN  {a \in typeScores : \A b \in typeScores : ScoreLeq(b.Score, a.Score)}

\* C18: the primary type CalculatePokemonTypes returns is the highest-scoring
\* type when its score is at least its own MinimumThreshold, and normal
\* otherwise, whatever the other types score.
C18_PrimaryIsTopOrNormal ==
    scResult # NoResult
        => \E top \in highestScoring(scCoffee) :
              scResult.primaryType =
                 IF atLeast(top.Score, typeRules[top.Type].MinimumThreshold)
                 THEN top.Type ELSE "normal"

\* the scorer fell back to normal: the highest-scoring types are not normal,
\* score above zero and miss their thresholds
C18_Witness ==
    /\ scResult # NoResult
    /\ scResult.primaryType = "normal"
    /\ \A top \in highestScoring(scCoffee) :
          /\ top.Type # "normal"
          /\ top.Score.num > 0
          /\ ~atLeast(top.Score, typeRules[top.Type].MinimumThreshold)

\* C19: CalculatePokemonTypes returns a secondary type exactly when the
\* second-highest-scoring type scores at least 0.8 times its own
\* MinimumThreshold and differs from the returned primary type; a secondary
\* type that is present is never the primary type.
C19_SecondaryDiffers ==
    scResult # NoResult
        => /\ scResult.secondaryType # scResult.primaryType
           /\ \E p \in sortedPairs(typeScoresOf(scCoffee)) :
                 scResult.secondaryType =
                    IF /\ p[2].Score.num * 500
                            >= 4 * typeRules[p[2].Type].MinimumThreshold * p[2].Score.den
                       /\ p[2].Type # scResult.primaryType
                    THEN p[2].Type ELSE ""

\* C20: getTypedCandidates returns at most 10 candidates, and in its result
\* the candidates fetched for the primary type come first, all of them
\* before the first candidate fetched for the secondary type.
C20_CappedPrimaryFirst ==
    tcCall # NoCall
        => LET r == tcCall.result
               P == primaryFetched(pokemons, tcCall.primaryType, tcCall.fail)
               S == secondaryFetched(pokemons, tcCall.secondaryType, tcCall.fail)
           IN  /\ Len(r) <= 10
               /\ Len(P) + Len(S) > 0
                    => \E k \in 0..Len(r) :
                          /\ k <= Len(P)
                          /\ SubSeq(r, 1, k) = SubSeq(P, 1, k)
                          /\ Len(r) - k <= Len(S)
                          /\ SubSeq(r, k + 1, Len(r)) = SubSeq(S, 1, Len(r) - k)
                          /\ k < Len(r) => k = Len(P)

\* a call whose two queries found more than 10 rows together: the result
\* holds all rows of the primary type, then rows of the secondary type, and
\* was cut at 10
C20_Witness ==
    /\ tcCall # NoCall
    /\ Len(tcCall.result) = 10
    /\ LET P == primaryFetched(pokemons, tcCall.primaryType, tcCall.fail)
           S == secondaryFetched(pokemons, tcCall.secondaryType, tcCall.fail)
       IN  /\ Len(P) \in 1..9
           /\ Len(P) + Len(S) > 10
           /\ \E i \in DOMAIN S : S[i] \notin Range(P)

\* C21: getTypedCandidates queries the Normal candidates only when the
\* queries for the primary and the secondary type found nothing together,
\* and MapCoffeeToPokemon fails with the no-candidates error only when the
\* Normal query found nothing either; then no row is stored and the refiner
\* is not called.
C21_BaselineLastResort ==
    /\ [](\A r \in Requests :
            outcome[r] = "no_candidates" => \A m \in coffee_pokemon : m.id # r)
    /\ [][\A r \in Requests, id \in CoffeeIDs, fail \in QueryFailures :
          \A res \in storedTypes[id] :
            MapStartWith(r, id, res, fail)
            => LET merged == primaryFetched(Pokemons, res.primaryType, fail)
                             \o secondaryFetched(Pokemons, res.secondaryType, fail)
                   baseline == IF fail.normal THEN <<>>
                               ELSE GetPokemonByType(<<"Normal">>)
               IN  /\ fail.normal => merged = <<>>
                   /\ merged # <<>>
                        => /\ outcome'[r] # "no_candidates"
                           /\ req'[r].candidates = SubSeq(merged, 1, Min2(10, Len(merged)))
                   /\ outcome'[r] = "no_candidates"
                        <=> (merged = <<>> /\ baseline = <<>>)
                   /\ outcome'[r] = "no_candidates"
                        => /\ coffee_pokemon' = coffee_pokemon
                           /\ pc'[r] = "done"]_vars

\* a request ended with the no-candidates error and another request, served
\* by the Normal candidates, stored its row
C21_Witness ==
    \E r, q \in Requests :
        /\ outcome[r] = "no_candidates"
        /\ outcome[q] = "created"
        /\ \E m \in coffee_pokemon : m.id = q /\ m.coffee_id = "c1"

\* C22: the candidate handed to ensureUniquePokemon is a member of the
\* candidate list; the refiner's answer is taken only when its selected name
\* equals, ignoring case, the name of a candidate, and in every other case
\* the choice of getBestTypeMatch is used.
C22_SelectionFromShortlist ==
    /\ [](\A r \in Requests :
            pc[r] = "unique" => req[r].selectedPokemon \in Range(req[r].candidates))
    /\ [][\A r \in Requests, o \in LLMOutcomes :
          LLMReplyWith(r, o)
          => LET res == llmMapCoffeeToPokemon(o)
                 named == {c \in Range(req[r].candidates) :
                             ToLower(c.Name) = ToLower(res.response.SelectedPokemon)}
                 best == getBestTypeMatch(CoffeeStore[req[r].coffeeID], req[r].candidates,
                                          req[r].primaryType, req[r].typeScore)
             IN  IF ~res.err /\ named # {}
                 THEN /\ req'[r].selectedPokemon \in named
                      /\ req'[r].via = "llm"
                 ELSE /\ req'[r].selectedPokemon = best.selectedPokemon
                      /\ req'[r].confidence = best.confidence
                      /\ req'[r].via = "fallback"]_vars

\* the refiner named a candidate in other letter case and that candidate
\* went on to the uniqueness stage
C22_Witness ==
    \E r \in Requests :
        /\ pc[r] = "unique"
        /\ req[r].via = "llm"
        /\ req[r].selectedPokemon.Name = "Charizard"
        /\ req[r].selectedPokemon # req[r].candidates[1]

\* the stages after the selection
afterSelection == {"unique", "alt", "insert"}

\* C23: when the refiner is disabled or its call fails, the selection is
\* the first entry of the candidate list and the confidence is 0.9 times the
\* score CalculatePokemonTypes computed for the returned primary type.
C23_FallbackSelection ==
    /\ [](\A r \in Requests :
            pc[r] \in afterSelection
            => /\ ~llmEnabled => req[r].via = "fallback"
               /\ req[r].via = "fallback"
                    => /\ req[r].selectedPokemon = req[r].candidates[1]
                       /\ \E res \in CalculatePokemonTypes(CoffeeStore[req[r].coffeeID]) :
                             /\ res.primaryType = req[r].primaryType
                             /\ ScoreEq([num |-> 10 * req[r].confidence.num,
                                          den |-> 9 * req[r].confidence.den],
                                         res.scores[res.primaryType]))
    /\ [][\A r \in Requests, o \in LLMOutcomes :
          (LLMReplyWith(r, o) /\ llmMapCoffeeToPokemon(o).err)
             => req'[r].via = "fallback"]_vars

\* the refiner call failed and the request went on with the first candidate
C23_Witness ==
    \E r \in Requests :
        /\ llmEnabled
        /\ pc[r] = "insert"
        /\ req[r].via = "fallback"
        /\ req[r].finalPokemon = req[r].candidates[1]
        /\ req[r].confidence.num > 0

\* C24: in every row stored through getBestTypeMatch the candidate named in
\* the description is the candidate of the row, also when
\* ensureUniquePokemon replaced the first choice by an alternative.
C24_DescriptionNamesStored ==
    \A m \in coffee_pokemon :
        m.llm_description.kind = "type_based"
            => m.llm_description.name = m.pokemon_name

\* the five traits buildTraitMapping scans, in its order, each with the name
\* it gives the annotation and the stat it maps to
scannedTraits ==
    <<[field |-> "sweetness", Trait |-> "sweetness", PokemonStat |-> "HP"],
      [field |-> "bitterness", Trait |-> "bitterness", PokemonStat |-> "Attack"],
      [field |-> "body", Trait |-> "body", PokemonStat |-> "Defense"],
      [field |-> "citrus_fruits_intensity", Trait |-> "citrus", PokemonStat |-> "Speed"],
      [field |-> "aromatic_intensity", Trait |-> "aroma", PokemonStat |-> "Special"]>>

\* one annotation for every scanned trait whose value is at least least, in
\* the order of the scan, and nothing else
annotationsFrom(traits, least) ==
    LET keep(e) == traits[e.field] >= least
        picked == SelectSeq(scannedTraits, keep)
    IN  [i \in DOMAIN picked |->
            [Trait |-> picked[i].Trait, PokemonStat |-> picked[i].PokemonStat]]

\* C25 as stated: one annotation for each of sweetness, bitterness, body,
\* citrus intensity and aromatic intensity whose value exceeds 7, in that
\* order, mapped to HP, Attack, Defense, Speed and Special, and none for a
\* trait that does not exceed 7 or is not one of the five.
C25_AnnotationsAboveSeven ==
    scMapping # NoMapping => scMapping = annotationsFrom(scCoffee.TastingTraits, 8)

\* C25 amended: one annotation for each of the five traits whose value is at
\* least 7, in that order and with those stats, and none for a trait below
\* 7 or outside the five.
C25_AnnotationsFromSeven ==
    scMapping # NoMapping => scMapping = annotationsFrom(scCoffee.TastingTraits, 7)

\* the mapping of a coffee with a scanned trait at exactly 7 and another
\* scanned trait above 7: two annotations
C25_Witness ==
    /\ scMapping # NoMapping
    /\ Len(scMapping) = 2
    /\ \E e \in Range(scannedTraits) : scCoffee.TastingTraits[e.field] = 7
    /\ \E e \in Range(scannedTraits) : scCoffee.TastingTraits[e.field] > 7

\* C26: when the selected candidate is used, ensureUniquePokemon returns
\* the first row, in id order, whose type matches the selected candidate's
\* type and that is not used, and returns an error when there is no such
\* row; a candidate it returns without an error is not used.
C26_FirstUnusedAlternative ==
    [][\A r \in Requests :
          /\ (pc[r] \in {"unique", "alt"} /\ pc'[r] = "insert")
                => ~\E m \in coffee_pokemon : m.pokemon_id = req'[r].finalPokemon.ID
          /\ (pc[r] = "alt" /\ pc'[r] # "alt")
                => LET alts == GetPokemonByType(req[r].selectedPokemon.Type)
                       unused == {i \in DOMAIN alts :
                                    \A m \in coffee_pokemon : m.pokemon_id # alts[i].ID}
                   IN  IF unused = {}
                       THEN outcome'[r] = "exhausted"
                       ELSE /\ pc'[r] = "insert"
                            /\ req'[r].finalPokemon
                                 = alts[CHOOSE i \in unused : \A j \in unused : i <= j]]_vars

\* the stages of MapCoffeeToPokemon in the order of the code
stageRank ==
    [idle |-> 0, llm |-> 1, unique |-> 2, alt |-> 3, insert |-> 4, done |-> 5]

\* C27: a request goes through its stages in one order (scoring, types and
\* candidates; refiner or fallback; uniqueness check; insert) and never
\* back: the refiner is called at most once, the alternatives are walked in
\* one pass, at most one row is inserted, and a finished request stays
\* finished.
C27_LinearPipeline ==
    /\ [](\A r \in Requests : Cardinality({m \in coffee_pokemon : m.id = r}) <= 1)
    /\ [][\A r \in Requests :
          /\ stageRank[pc'[r]] >= stageRank[pc[r]]
          /\ pc'[r] = "llm" => pc[r] \in {"idle", "llm"}
          /\ (pc'[r] = pc[r] /\ pc[r] # "alt") => req'[r] = req[r]
          /\ (pc'[r] = "alt" /\ pc[r] = "alt")
                => /\ req'[r].altIdx >= req[r].altIdx
                   /\ req'[r].altIdx <= Len(req[r].alternatives)
                   /\ req'[r].alternatives = req[r].alternatives
                   /\ req'[r].selectedPokemon = req[r].selectedPokemon
          /\ {m \in coffee_pokemon' : m.id = r} # {m \in coffee_pokemon : m.id = r}
                => (pc[r] = "insert" /\ pc'[r] = "done")
          /\ pc[r] = "done" => (pc'[r] = "done" /\ outcome'[r] = outcome[r])]_vars

\* a request went through every stage: the refiner answered, the selected
\* candidate was used, the pass over the alternatives found another row and
\* the row was inserted
C27_Witness ==
    \E r \in Requests :
        /\ llmEnabled
        /\ outcome[r] = "created"
        /\ \E m \in coffee_pokemon :
              /\ m.id = r
              /\ m.pokemon_name = "Charizard"
              /\ m.llm_description.kind = "type_based"

\* the reference formula over a list of trait weights: what the list adds to
\* rawScore and to maxPossible, in tenths
RECURSIVE referenceTraits(_, _)
referenceTraits(traits, weights) ==
    IF weights = <<>>
    THEN [raw |-> 0, max |-> 0]
    ELSE LET tw == Head(weights)
             rest == referenceTraits(traits, Tail(weights))
             value == traits[tw.Trait]
             clamped == IF value > tw.Max THEN tw.Max ELSE value
         IN  [raw |-> rest.raw + (IF value >= tw.Min THEN clamped * tw.Weight ELSE 0),
              max |-> rest.max + tw.Weight * 10]

\* the multiplier a table gives for a key, in tenths, 1.0 when it has none
referenceMultiplier(table, key) ==
    IF key \in DOMAIN table THEN table[key] ELSE 10

\* the reference formula for one rule, given what the keyword step adds to
\* rawScore and to maxPossible (in tenths)
referenceScoreWith(coffee, rule, kwRaw, kwMax) ==
    LET p == referenceTraits(coffee.TastingTraits, rule.PrimaryTraits)
        q == referenceTraits(coffee.TastingTraits, rule.SecondaryTraits)
        raw == (p.raw + q.raw + kwRaw)
               * referenceMultiplier(rule.ProcessingBonus, coffee.ProcessingMethod)
               * referenceMultiplier(rule.RoastLevelBonus, coffee.RoastLevel)
        maxP == (p.max + q.max + kwMax) * 100
    IN  IF maxP > 0
        THEN IF raw > maxP THEN One ELSE [num |-> raw, den |-> maxP]
        ELSE Zero

\* the reference formula, the keyword step taken as calculateTypeScore
\* performs it: 4 per matching note to rawScore and 20 to maxPossible when
\* the rule has keywords
referenceScore(coffee, rule) ==
    LET hasKeywords == rule.KeywordMatches # {}
    IN  referenceScoreWith(coffee, rule,
            IF hasKeywords
            THEN 40 * keywordMatches(coffee.TastingNotes, rule.KeywordMatches)
            ELSE 0,
            IF hasKeywords THEN 200 ELSE 0)

\* C28: for every coffee and every rule the score of calculateTypeScore is
\* the reference formula: every trait weight, negative ones too, adds
\* weight x 10 to maxPossible and min(value, Max) x weight to rawScore
\* exactly when value >= Min; the two multipliers scale rawScore only; the
\* result is min(rawScore / maxPossible, 1) when maxPossible > 0, else 0.
C28_ReferenceFormula ==
    scResult # NoResult
        => \A t \in TypeNames :
              scResult.scores[t] = referenceScore(scCoffee, typeRules[t])

\* a scored coffee on which a negative weight applies under a roast-level
\* multiplier
C28_Witness ==
    /\ scResult # NoResult
    /\ \E t \in TypeNames :
          /\ scResult.scores[t].num < 0
          /\ scCoffee.RoastLevel \in DOMAIN typeRules[t].RoastLevelBonus

\* the number of notes that are not empty and contain, letter case aside,
\* at least one of the keywords
RECURSIVE notesMatching(_, _)
notesMatching(notes, keywords) ==
    IF notes = <<>> THEN 0
    ELSE (IF Head(notes) # "" /\ \E k \in keywords : k \in NoteKeywords(Head(notes))
          THEN 1 ELSE 0)
         + notesMatching(Tail(notes), keywords)

\* C29 as stated: for a rule with keywords the keyword step counts each
\* non-empty note at most once and adds (count/5) x 20 to rawScore and to
\* maxPossible; for a rule without keywords it changes neither.
C29_KeywordBothSides ==
    scResult # NoResult
        => \A t \in TypeNames :
              LET rule == typeRules[t]
                  added == IF rule.KeywordMatches # {}
                           THEN 40 * notesMatching(scCoffee.TastingNotes, rule.KeywordMatches)
                           ELSE 0
              IN  scResult.scores[t] = referenceScoreWith(scCoffee, rule, added, added)

\* C29 amended: for a rule with keywords the keyword step counts each
\* non-empty note at most once, adds (count/5) x 20 to rawScore and adds
\* the full 20 to maxPossible whatever the count; for a rule without
\* keywords it changes neither.
C29_KeywordStep ==
    scResult # NoResult
        => \A t \in TypeNames :
              LET rule == typeRules[t]
                  hasKeywords == rule.KeywordMatches # {}
              IN  scResult.scores[t]
                    = referenceScoreWith(scCoffee, rule,
                        IF hasKeywords
                        THEN 40 * notesMatching(scCoffee.TastingNotes, rule.KeywordMatches)
                        ELSE 0,
                        IF hasKeywords THEN 200 ELSE 0)

\* a scored coffee with an empty note, a note in capitals and a note that
\* contains two keywords of one rule
C29_Witness ==
    /\ scResult # NoResult
    /\ \E i, j \in DOMAIN scCoffee.TastingNotes :
          /\ scCoffee.TastingNotes[i] = ""
          /\ scCoffee.TastingNotes[j] = "Burnt Toast"
          /\ Cardinality(NoteKeywords("Burnt Toast") \cap typeRules["fire"].KeywordMatches) = 2

\* C30: whatever the interleaving of CreateBrewer requests, table brewers
\* never holds more than 4 rows, and a request whose limit check runs while
\* 4 rows are stored is rejected and stores nothing.
C30_BrewerLimitHolds ==
    /\ [](Cardinality(brewers) <= BrewerLimit)
    /\ [][\A b \in BrewerRequests :
            (brewerReq[b].pc = "idle" /\ brewerReq'[b].pc # "idle"
                /\ Cardinality(brewers) = BrewerLimit)
            => (brewerReq'[b].pc = "rejected" /\ brewers' = brewers)]_vars

=============================================================================
